---- MODULE Spec2Model ----
(***************************************************************************)
(* A model of the agenty conversation driver: the capability registry      *)
(* (src/tool.rs: Tool, ToolBox), the step driver Agent::run_once, the      *)
(* tool-call resolution helper Agent::handle_toolcalls and the two loop    *)
(* drivers Agent::run_until_tool and Agent::run_until_text (src/agent.rs). *)
(*                                                                         *)
(* Rust values are represented uniformly so that any two of them compare:  *)
(*   Option<T>        a sequence of length 0 (None) or 1 (Some)            *)
(*   String           a TLA+ string                                        *)
(*   raw JSON text    a sequence of tokens                                 *)
(*   a struct value   the sequence of its field values in field order      *)
(*   Result, enums    a record with a tag field and one field per payload  *)
(***************************************************************************)
EXTENDS Integers, Sequences, FiniteSets, TLC

(***************************************************************************)
(* Bounds of the model.                                                    *)
(***************************************************************************)
\* the longest tool-call batch a response of the first turn carries
MaxBatch == 2
\* completion requests one agent issues over its lifetime
MaxTurns == 2
\* the caller appends to a context only while it is shorter than this
MaxContext == 2
\* add_tool calls made on one agent's registry, those before Agent::new included
MaxRegistrations == 3

(***************************************************************************)
(* Option<T>                                                               *)
(***************************************************************************)
None == <<>>

Some(x) == <<x>>

IsSome(o) == Len(o) = 1

\* Option::unwrap_or_default, d being T::default()
UnwrapOrDefault(o, d) == IF IsSome(o) THEN o[1] ELSE d

Last(s) == s[Len(s)]

(***************************************************************************)
(* Capabilities.  Tool::NAME and the field names of Tool::ARGUMENTS, in    *)
(* declaration order, of the two concrete tools the model registers.       *)
(***************************************************************************)
ReadFileName == "read_file"

GrepName == "grep_files"

ToolTypes == {ReadFileName, GrepName}

\* the fields of T::ARGUMENTS (ReadFileToolArgs, GrepToolArgs); schema_for!(T::ARGUMENTS)
\* is represented by the same sequence
ArgShape(name) ==
    IF name = ReadFileName THEN <<"file_path">> ELSE <<"directory", "pattern">>

(***************************************************************************)
(* serde_json::from_str::<T::ARGUMENTS> on a token sequence.  A text is an *)
(* object  { key : value , key : value ... } ; the derived Deserialize of  *)
(* a struct ignores unknown keys, rejects a repeated known key and a       *)
(* missing field, and accepts the fields in any order.                     *)
(***************************************************************************)
IsPunct(t) == t \in {"{", "}", ":", ","}

ParseFail == [ok |-> FALSE, pairs |-> <<>>]

RECURSIVE ParseMembers(_)
ParseMembers(toks) ==
    IF Len(toks) < 3 THEN ParseFail
    ELSE IF IsPunct(toks[1]) \/ toks[2] # ":" \/ IsPunct(toks[3]) THEN ParseFail
    ELSE IF Len(toks) = 3 THEN [ok |-> TRUE, pairs |-> << <<toks[1], toks[3]>> >>]
    ELSE IF toks[4] # "," THEN ParseFail
    ELSE LET rest == ParseMembers(SubSeq(toks, 5, Len(toks)))
         IN  IF rest.ok
             THEN [ok |-> TRUE, pairs |-> << <<toks[1], toks[3]>> >> \o rest.pairs]
             ELSE ParseFail

ParseObject(raw) ==
    IF Len(raw) < 2 \/ raw[1] # "{" \/ raw[Len(raw)] # "}" THEN ParseFail
    ELSE IF Len(raw) = 2 THEN [ok |-> TRUE, pairs |-> <<>>]
    ELSE ParseMembers(SubSeq(raw, 2, Len(raw) - 1))

\* the positions of key f among the parsed members
KeyPositions(pairs, f) == {i \in 1..Len(pairs) : pairs[i][1] = f}

\* Result<T::ARGUMENTS, serde_json::Error>
FromStr(shape, raw) ==
    LET p == ParseObject(raw)
    IN  IF ~p.ok THEN [ok |-> FALSE, val |-> <<>>]
        ELSE IF \E i \in 1..Len(shape) : Cardinality(KeyPositions(p.pairs, shape[i])) # 1
             THEN [ok |-> FALSE, val |-> <<>>]
             ELSE [ok |-> TRUE,
                   val |-> [i \in 1..Len(shape) |->
                              p.pairs[CHOOSE k \in KeyPositions(p.pairs, shape[i]) : TRUE][2]]]

(***************************************************************************)
(* AgentyError (the variants the driver produces or passes on) and the     *)
(* Result and AgentAction values.                                          *)
(***************************************************************************)
Err(kind, text, schema, raw) ==
    [kind |-> kind, text |-> text, schema |-> schema, raw |-> raw]

IncorrectToolCall(schema, raw) == Err("IncorrectToolCall", "", schema, raw)

NoSuchTool(name) == Err("NoSuchTool", name, <<>>, <<>>)

Unexpected(s) == Err("Unexpected", s, <<>>, <<>>)

\* serde_json::Error through #[from]
STDJSON == Err("STDJSON", "", <<>>, <<>>)

\* std::io::Error through #[from]: a capability's domain error
IOError == Err("IO", "", <<>>, <<>>)

\* openai error through From: the completion request failed after its retries
PromptError == Err("Prompt", "", <<>>, <<>>)

\* AgentyError::Other(eyre!("Not supported choice: ..."))
NotSupportedChoice == Err("Other", "Not supported choice", <<>>, <<>>)

NoError == Err("", "", <<>>, <<>>)

\* Result<String, AgentyError> of a capability
OkText(s) == [tag |-> "Ok", text |-> s, args |-> <<>>, err |-> NoError]

\* Result<T::ARGUMENTS, AgentyError> of run_until_tool
OkArgs(v) == [tag |-> "Ok", text |-> "", args |-> v, err |-> NoError]

Failed(e) == [tag |-> "Err", text |-> "", args |-> <<>>, err |-> e]

\* no call has returned yet
NoResult == [tag |-> "None", text |-> "", args |-> <<>>, err |-> NoError]

\* AgentAction<T>
Continue == [tag |-> "Continue", text |-> "", args |-> <<>>]

UnexpectedAction(s) == [tag |-> "Unexpected", text |-> s, args |-> <<>>]

OutText(s) == [tag |-> "Out", text |-> s, args |-> <<>>]

OutArgs(v) == [tag |-> "Out", text |-> "", args |-> v]

NoAction == [tag |-> "None", text |-> "", args |-> <<>>]

\* Result<Vec<String>, AgentyError> of handle_toolcalls
HelperOk(v) == [tag |-> "Ok", resps |-> v, err |-> NoError]

HelperErr(e) == [tag |-> "Err", resps |-> <<>>, err |-> e]

HelperNone == [tag |-> "None", resps |-> <<>>, err |-> NoError]

(***************************************************************************)
(* The capability registry: ToolBox.tools, a map from Tool::NAME to the    *)
(* boxed tool, here a function whose domain is the registered names.  A    *)
(* tool object is its NAME and the cwd it closes over.                     *)
(***************************************************************************)
ToolObject(name, cwd) == [name |-> name, cwd |-> cwd]

\* ToolBox::new()
EmptyToolBox == [n \in {} |-> ToolObject("", "")]

\* faulty variant of AddDynTool: a name already present keeps its tool
AddDynToolKeepFirst(box, tool) ==
    [n \in DOMAIN box \cup {tool.name} |-> IF n \in DOMAIN box THEN box[n] ELSE tool]

\* ToolBox::add_dyn_tool: HashMap::insert under tool.name()
AddDynTool(box, tool) ==
    [n \in DOMAIN box \cup {tool.name} |-> IF n = tool.name THEN tool ELSE box[n]]

\* the ToolBox after ToolBox::new() and add_tool of each tool of the log, in order
RECURSIVE ToolBoxOf(_)
ToolBoxOf(log) ==
    IF Len(log) = 0 THEN EmptyToolBox
    ELSE AddDynTool(ToolBoxOf(SubSeq(log, 1, Len(log) - 1)), log[Len(log)])

\* Tool::to_openai_obejct: the descriptor is made of the constants of the tool
\* type (NAME, the schema of ARGUMENTS, STRICT), not of the tool's fields
ToOpenaiObject(tool) ==
    [name |-> tool.name, parameters |-> ArgShape(tool.name), strict |-> FALSE]

\* the orders in which HashMap::iter may visit the keys
Orders(keys) ==
    {o \in [1..Cardinality(keys) -> keys] :
        \A i, j \in 1..Cardinality(keys) : o[i] = o[j] => i = j}

\* ToolBox::openai_objects: the Vec collected from the iteration, one of these
OpenaiObjects(box) ==
    {[i \in 1..Cardinality(DOMAIN box) |-> ToOpenaiObject(box[o[i]])] :
        o \in Orders(DOMAIN box)}

\* Tool::invoke, the capability's invocation logic on parsed arguments: a text,
\* or a domain error raised with `?` (read_file: read_to_end; grep_files: the
\* joined blocking task).  `fails` is the environment's part.
ToolInvoke(tool, args, fails) ==
    IF fails THEN Failed(IOError) ELSE OkText(tool.name \o ":" \o args[1])

\* faulty variant of ToolCall: arguments that do not parse are replaced by the
\* default value of the argument type and the logic runs on it
ToolCallDefaultArgs(tool, raw, fails) ==
    LET p == FromStr(ArgShape(tool.name), raw)
        d == [i \in 1..Len(ArgShape(tool.name)) |-> ""]
    IN  IF p.ok
        THEN [ran |-> TRUE, args |-> p.val, result |-> ToolInvoke(tool, p.val, fails)]
        ELSE [ran |-> TRUE, args |-> d, result |-> ToolInvoke(tool, d, fails)]

\* Tool::call: parse the raw arguments and, only if they parse, run the logic.
\* ran/args record whether the logic ran and the value it received.
ToolCall(tool, raw, fails) ==
    LET p == FromStr(ArgShape(tool.name), raw)
    IN  IF p.ok
        THEN [ran |-> TRUE, args |-> p.val, result |-> ToolInvoke(tool, p.val, fails)]
        ELSE [ran |-> FALSE, args |-> <<>>,
              result |-> Failed(IncorrectToolCall(ArgShape(tool.name), raw))]

\* ToolBox::invoke: Option<Result<String, AgentyError>>
ToolBoxInvoke(box, name, raw, fails) ==
    IF name \in DOMAIN box THEN Some(ToolCall(box[name], raw, fails)) ELSE None

(***************************************************************************)
(* The completion endpoint (external): what one round trip may return.     *)
(***************************************************************************)
\* serde_json serialization of a struct value, as the endpoint (or a test)
\* produces the raw argument text of a call
RECURSIVE SerializeFields(_, _, _)
SerializeFields(shape, val, i) ==
    IF i > Len(shape) THEN <<>>
    ELSE (IF i > 1 THEN <<",">> ELSE <<>>) \o <<shape[i], ":", val[i]>>
         \o SerializeFields(shape, val, i + 1)

Serialize(shape, val) == <<"{">> \o SerializeFields(shape, val, 1) \o <<"}">>

\* the structured argument values the endpoint serializes
ArgValues(name) == IF name = ReadFileName THEN {<<"a">>} ELSE {<<"d", "p">>}

\* a text cut off in the middle: not JSON
RawTruncated == <<"{", "file_path", ":">>

\* a name no registry holds
BogusName == "bogus"

CallNames == ToolTypes \cup {BogusName}

\* the argument texts the endpoint sends with a call of `name`: the serialized
\* values of that capability's shape and one text that does not parse against
\* it (well-formed JSON of another shape for read_file, a truncated text for
\* grep_files); a call of an unknown name carries read_file's arguments
CallArgs(name) ==
    CASE name = ReadFileName ->
            {Serialize(ArgShape(name), v) : v \in ArgValues(name)}
                \cup {Serialize(ArgShape(GrepName), v) : v \in ArgValues(GrepName)}
      [] name = GrepName ->
            {Serialize(ArgShape(name), v) : v \in ArgValues(name)} \cup {RawTruncated}
      [] OTHER ->
            {Serialize(ArgShape(ReadFileName), v) : v \in ArgValues(ReadFileName)}

\* ChatCompletionMessageToolCall: function.name, function.arguments
Calls == UNION {{[name |-> n, arguments |-> r] : r \in CallArgs(n)} : n \in CallNames}

Batches(n) == UNION {[1..k -> Calls] : k \in 0..n}

FinishReasons == {"Stop", "Length", "ToolCalls", "ContentFilter", "FunctionCall"}

OptFinishReasons == {None} \cup {Some(f) : f \in FinishReasons}

\* every combination of the four signals, for the first turn
WideChoices ==
    [finish_reason : OptFinishReasons,
     content : {None, Some("42")},
     refusal : {None, Some("policy violation")},
     tool_calls : {None} \cup {Some(b) : b \in Batches(MaxBatch)}]

Choice(finish_reason, content, refusal, tool_calls) ==
    [finish_reason |-> finish_reason, content |-> content, refusal |-> refusal,
     tool_calls |-> tool_calls]

\* the later turns: one signal at a time, at most one call
NarrowChoices ==
    {Choice(Some("Stop"), Some("42"), None, None),
     Choice(Some("ContentFilter"), None, Some("policy violation"), None),
     Choice(None, None, None, None)}
        \cup {Choice(Some("ToolCalls"), None, None, Some(b)) : b \in Batches(1)}

\* a further choice of a response, never the first
ExtraChoices == {Choice(Some("Stop"), Some("second"), None, None)}

\* CreateChatCompletionResponse.choices at the n-th request of an agent: one
\* choice, or two
Responses(n) ==
    {<<c>> : c \in IF n = 1 THEN WideChoices ELSE NarrowChoices}
        \cup {<<c, e>> : <<c, e>> \in NarrowChoices \X ExtraChoices}

(***************************************************************************)
(* Messages of the context (ChatCompletionRequestMessage), as the builders *)
(* of src/agent.rs fill them.                                              *)
(***************************************************************************)
Message(role, content, refusal, tool_calls) ==
    [role |-> role, content |-> content, refusal |-> refusal, tool_calls |-> tool_calls]

SystemMessage(s) == Message("system", Some(s), None, None)

UserMessage(s) == Message("user", Some(s), None, None)

AssistantToolCalls(calls) == Message("assistant", None, None, Some(calls))

AssistantRefusal(s) == Message("assistant", None, Some(s), None)

AssistantContent(s) == Message("assistant", Some(s), None, None)

\* faulty variant of Join: the texts are concatenated without a separator
RECURSIVE JoinNoSeparator(_)
JoinNoSeparator(strs) ==
    IF Len(strs) = 0 THEN "" ELSE strs[1] \o JoinNoSeparator(Tail(strs))

\* faulty variant of Join: every text is followed by a newline, and so is the
\* empty list of texts
RECURSIVE JoinTerminated(_)
JoinTerminated(strs) ==
    IF Len(strs) = 0 THEN "\n" ELSE strs[1] \o "\n" \o
        (IF Len(strs) = 1 THEN "" ELSE JoinTerminated(Tail(strs)))

\* itertools join("\n")
RECURSIVE Join(_)
Join(strs) ==
    IF Len(strs) = 0 THEN ""
    ELSE IF Len(strs) = 1 THEN strs[1]
    ELSE strs[1] \o "\n" \o Join(Tail(strs))

DefaultSystem == "You are an expert agent that calls tool to complete your task."

(***************************************************************************)
(* State.  Every variable is a function of the agent.                      *)
(***************************************************************************)
Agents == {"A", "B"}

VARIABLES
    tools,      \* Agent.tools: the agent's ToolBox
    registered, \* the tools added to the agent's ToolBox so far, in order (observer)
    system,     \* Agent.system
    user,       \* Agent.user
    context,    \* Agent.context
    pc,         \* where the agent's driver call stands
    mode,       \* the running driver: run_until_tool::<T> (target = T::NAME) or run_until_text
    req,        \* run_once: the request built for the round trip in flight
    resp,       \* the choices of the response run_once holds
    choice,     \* the choice run_once has classified, until the next step takes over
    calls,      \* the tool-calls list handed to on_toolcalls
    text,       \* the text handed to on_message or on_refusal
    pos,        \* handle_toolcalls: how many calls the for loop has taken
    resps,      \* handle_toolcalls: the texts collected so far
    helper,     \* what handle_toolcalls returned
    action,     \* what run_once returned to the loop
    result,     \* what the last driver call returned to its caller
    requests,   \* completion requests issued so far (observer)
    invoked     \* the runs of invocation logic since the last completion request,
                \* in order (observer)

vars ==
    <<tools, registered, system, user, context, pc, mode, req, resp, choice, calls, text,
      pos, resps, helper, action, result, requests, invoked>>

NoMode == [kind |-> "none", target |-> ""]

ToolMode(target) == [kind |-> "tool", target |-> target]

TextMode == [kind |-> "text", target |-> ""]

\* faulty variant of FullContext: the two messages of the preamble change places
FullContextUserFirst(a) ==
    <<UserMessage(user[a]), SystemMessage(system[a])>> \o context[a]

\* Agent::full_context
FullContext(a) == <<SystemMessage(system[a]), UserMessage(user[a])>> \o context[a]

\* the add_tool calls a caller makes on ToolBox::new() before Agent::new, at
\* most one tool per name
InitialRegistrations ==
    LET rf == ToolObject(ReadFileName, "/w")
        gr == ToolObject(GrepName, "/w")
    IN  {<<>>, <<rf>>, <<gr>>, <<rf, gr>>}

\* the registries so built
InitialToolBoxes == {ToolBoxOf(log) : log \in InitialRegistrations}

\* Agent::new(tools, system, user), every agent given a clone of the same registry
Init ==
    \E log \in InitialRegistrations, sys \in {None, Some("sys")} :
        /\ tools = [a \in Agents |-> ToolBoxOf(log)]
        /\ registered = [a \in Agents |-> log]
        /\ req = [a \in Agents |-> None]
        /\ system = [a \in Agents |-> UnwrapOrDefault(sys, DefaultSystem)]
        /\ user = [a \in Agents |-> "task"]
        /\ context = [a \in Agents |-> <<>>]
        /\ pc = [a \in Agents |-> "idle"]
        /\ mode = [a \in Agents |-> NoMode]
        /\ resp = [a \in Agents |-> <<>>]
        /\ choice = [a \in Agents |-> None]
        /\ calls = [a \in Agents |-> <<>>]
        /\ text = [a \in Agents |-> ""]
        /\ pos = [a \in Agents |-> 0]
        /\ resps = [a \in Agents |-> <<>>]
        /\ helper = [a \in Agents |-> HelperNone]
        /\ action = [a \in Agents |-> NoAction]
        /\ result = [a \in Agents |-> NoResult]
        /\ requests = [a \in Agents |-> 0]
        /\ invoked = [a \in Agents |-> <<>>]

(***************************************************************************)
(* Agent::run_once, lines 98-138: the classification of the first choice.  *)
(***************************************************************************)
\* faulty variant of SwapRemove0: the element that takes the place of the first
SwapRemoveLast(choices) == choices[Len(choices)]

\* resp.choices.swap_remove(0): the element removed
SwapRemove0(choices) == choices[1]

\* resp.choices after swap_remove(0): the last element has taken the place of
\* the first
SwapRemove0Rest(choices) ==
    IF Len(choices) = 1 THEN <<>>
    ELSE <<choices[Len(choices)]>> \o SubSeq(choices, 2, Len(choices) - 1)

\* faulty variant of Branch: the refusal test is made before the tool-calls test
BranchRefusalFirst(c) ==
    IF \/ c.finish_reason = Some("ContentFilter")
       \/ IsSome(c.refusal)
    THEN "Refusal"
    ELSE IF \/ c.finish_reason = Some("ToolCalls")
            \/ Len(UnwrapOrDefault(c.tool_calls, <<>>)) > 0
    THEN "ToolCalls"
    ELSE IF \/ c.finish_reason = Some("Stop")
            \/ c.finish_reason = Some("Length")
            \/ IsSome(c.content)
    THEN "Message"
    ELSE "Unsupported"

\* faulty variant of Branch: a choice without any signal is taken as a message
BranchDefaultMessage(c) ==
    IF \/ c.finish_reason = Some("ToolCalls")
       \/ Len(UnwrapOrDefault(c.tool_calls, <<>>)) > 0
    THEN "ToolCalls"
    ELSE IF \/ c.finish_reason = Some("ContentFilter")
            \/ IsSome(c.refusal)
    THEN "Refusal"
    ELSE "Message"

\* the branch of the if / else-if chain the choice takes
Branch(c) ==
    IF \/ c.finish_reason = Some("ToolCalls")
       \/ Len(UnwrapOrDefault(c.tool_calls, <<>>)) > 0
    THEN "ToolCalls"
    ELSE IF \/ c.finish_reason = Some("ContentFilter")
            \/ IsSome(c.refusal)
    THEN "Refusal"
    ELSE IF \/ c.finish_reason = Some("Stop")
            \/ c.finish_reason = Some("Length")
            \/ IsSome(c.content)
    THEN "Message"
    ELSE "Unsupported"

\* faulty variant of Recorded: every branch records the content
RecordedContentOnly(c) == AssistantContent(UnwrapOrDefault(c.content, ""))

\* faulty variant of Recorded: the ToolCalls branch records the content
RecordedToolCallsAsContent(c) ==
    CASE Branch(c) = "Refusal" ->
            AssistantRefusal(UnwrapOrDefault(c.refusal, ""))
      [] OTHER ->
            AssistantContent(UnwrapOrDefault(c.content, ""))

\* the Assistant message the taken branch pushes
Recorded(c) ==
    CASE Branch(c) = "ToolCalls" ->
            AssistantToolCalls(UnwrapOrDefault(c.tool_calls, <<>>))
      [] Branch(c) = "Refusal" ->
            AssistantRefusal(UnwrapOrDefault(c.refusal, ""))
      [] OTHER ->
            AssistantContent(UnwrapOrDefault(c.content, ""))

\* faulty variant of FindCall: only the head of the batch is looked at
FindCallHeadOnly(batch, target) ==
    IF Len(batch) > 0 /\ batch[1].name = target THEN 1 ELSE 0

\* toolcalls.iter().find(|t| t.function.name == T::NAME): the index found, or 0
FindCall(batch, target) ==
    IF \E i \in 1..Len(batch) : batch[i].name = target
    THEN CHOOSE i \in 1..Len(batch) :
            /\ batch[i].name = target
            /\ \A j \in 1..(i - 1) : batch[j].name # target
    ELSE 0

\* faulty variant of Recoverable: every error of the helper is swallowed
RecoverableAny(e) == TRUE

\* faulty variant of Recoverable: only an unknown name is swallowed
RecoverableNoSuchToolOnly(e) == e.kind = "NoSuchTool"

\* the errors of handle_toolcalls the loop drivers swallow
Recoverable(e) == e.kind \in {"NoSuchTool", "IncorrectToolCall"}

(***************************************************************************)
(* Actions of agent a.                                                     *)
(***************************************************************************)
\* faulty variant of Set: the field is one object shared by the agents
SetShared(f, a, v) == [b \in DOMAIN f |-> v]

\* a write through &mut self: the field of agent a, and of no other agent
Set(f, a, v) == [f EXCEPT ![a] = v]

\* the values of one loop iteration go out of scope
DropIteration(a) ==
    /\ calls' = Set(calls, a, <<>>)
    /\ text' = Set(text, a, "")
    /\ pos' = Set(pos, a, 0)
    /\ resps' = Set(resps, a, <<>>)
    /\ helper' = Set(helper, a, HelperNone)
    /\ action' = Set(action, a, NoAction)

\* a caller starts run_until_tool::<T>
RunUntilTool(a) ==
    /\ pc[a] = "idle"
    /\ requests[a] < MaxTurns
    /\ \E target \in ToolTypes : mode' = Set(mode, a, ToolMode(target))
    /\ pc' = Set(pc, a, "loop")
    /\ result' = Set(result, a, NoResult)
    /\ choice' = Set(choice, a, None)
    /\ UNCHANGED <<tools, registered, system, user, req, context, resp, calls, text, pos,
                   resps, helper, action, requests, invoked>>

\* a caller starts run_until_text
RunUntilText(a) ==
    /\ pc[a] = "idle"
    /\ requests[a] < MaxTurns
    /\ mode' = Set(mode, a, TextMode)
    /\ pc' = Set(pc, a, "loop")
    /\ result' = Set(result, a, NoResult)
    /\ choice' = Set(choice, a, None)
    /\ UNCHANGED <<tools, registered, system, user, req, context, resp, calls, text, pos,
                   resps, helper, action, requests, invoked>>

\* run_once, lines 82-96: the request is built from full_context() and the
\* registry's descriptors and the round trip returns a response
CompleteWith(a, responses) ==
    /\ pc[a] = "loop"
    /\ requests[a] < MaxTurns
    /\ requests' = Set(requests, a, requests[a] + 1)
    /\ \E descriptors \in OpenaiObjects(tools[a]) :
          req' = Set(req, a, Some([tools |-> descriptors, messages |-> FullContext(a)]))
    /\ \E r \in responses : resp' = Set(resp, a, r)
    /\ invoked' = Set(invoked, a, <<>>)
    /\ pc' = Set(pc, a, "classify")
    /\ UNCHANGED <<tools, registered, system, user, choice, context, mode, calls, text,
                   pos, resps, helper, action, result>>

\* the round trip against the endpoint of Responses
CompleteOk(a) == CompleteWith(a, Responses(requests[a] + 1))

\* run_once, lines 94-96: the round trip fails; `?` in run_once and `?` in the
\* loop hand the error to the caller
CompleteErr(a) ==
    /\ pc[a] = "loop"
    /\ requests[a] < MaxTurns
    /\ requests' = Set(requests, a, requests[a] + 1)
    /\ result' = Set(result, a, Failed(PromptError))
    /\ invoked' = Set(invoked, a, <<>>)
    /\ pc' = Set(pc, a, "idle")
    /\ UNCHANGED <<tools, registered, system, user, req, choice, context, mode, resp,
                   calls, text, pos, resps, helper, action>>

\* run_once, lines 98-138: take the first choice, push the Assistant message of
\* its branch and hand the payload to the branch's continuation; the request is
\* no longer in flight
Classify(a) ==
    /\ pc[a] = "classify"
    /\ LET first == SwapRemove0(resp[a])
           b == Branch(first)
       IN  IF b = "Unsupported"
           THEN /\ result' = Set(result, a, Failed(NotSupportedChoice))
                /\ pc' = Set(pc, a, "idle")
                /\ resp' = Set(resp, a, <<>>)
                /\ UNCHANGED <<context, calls, text>>
           ELSE /\ context' = Set(context, a, Append(context[a], Recorded(first)))
                /\ resp' = Set(resp, a, SwapRemove0Rest(resp[a]))
                /\ calls' = Set(calls, a,
                                IF b = "ToolCalls"
                                THEN UnwrapOrDefault(first.tool_calls, <<>>) ELSE <<>>)
                /\ text' = Set(text, a,
                               IF b = "Refusal" THEN UnwrapOrDefault(first.refusal, "")
                               ELSE IF b = "Message" THEN UnwrapOrDefault(first.content, "")
                               ELSE "")
                /\ pc' = Set(pc, a, CASE b = "ToolCalls" -> "on_toolcalls"
                                      [] b = "Refusal" -> "on_refusal"
                                      [] OTHER -> "on_message")
                /\ UNCHANGED result
    /\ req' = Set(req, a, None)
    /\ choice' = Set(choice, a, Some(SwapRemove0(resp[a])))
    /\ UNCHANGED <<tools, registered, system, user, mode, pos, resps, helper, action,
                   requests, invoked>>

\* faulty variant of OnToolCalls: target arguments that do not parse are
\* treated like a malformed call of any other capability, and the loop retries
OnToolCallsTargetRecoverable(a) ==
    /\ pc[a] = "on_toolcalls"
    /\ LET i == IF mode[a].kind = "tool" THEN FindCall(calls[a], mode[a].target) ELSE 0
       IN  IF i # 0
           THEN LET td == FromStr(ArgShape(mode[a].target), calls[a][i].arguments)
                IN  /\ action' = Set(action, a,
                                     IF td.ok THEN OutArgs(td.val) ELSE Continue)
                    /\ pc' = Set(pc, a, "loopctl")
                    /\ UNCHANGED <<result, calls, text, pos, resps, helper>>
           ELSE /\ pc' = Set(pc, a, "dispatch")
                /\ UNCHANGED <<result, calls, text, pos, resps, helper, action>>
    /\ choice' = Set(choice, a, None)
    /\ resp' = Set(resp, a, <<>>)
    /\ UNCHANGED <<tools, registered, system, user, req, context, mode, requests, invoked>>

\* the on_toolcalls closures: run_until_tool lines 191-196, run_until_text
\* lines 236-237, up to the call of handle_toolcalls
OnToolCalls(a) ==
    /\ pc[a] = "on_toolcalls"
    /\ LET i == IF mode[a].kind = "tool" THEN FindCall(calls[a], mode[a].target) ELSE 0
       IN  IF i # 0
           THEN LET td == FromStr(ArgShape(mode[a].target), calls[a][i].arguments)
                IN  IF td.ok
                    THEN /\ action' = Set(action, a, OutArgs(td.val))
                         /\ pc' = Set(pc, a, "loopctl")
                         /\ UNCHANGED <<result, calls, text, pos, resps, helper>>
                    ELSE /\ result' = Set(result, a, Failed(STDJSON))
                         /\ pc' = Set(pc, a, "idle")
                         /\ DropIteration(a)
           ELSE /\ pc' = Set(pc, a, "dispatch")
                /\ UNCHANGED <<result, calls, text, pos, resps, helper, action>>
    /\ choice' = Set(choice, a, None)
    /\ resp' = Set(resp, a, <<>>)
    /\ UNCHANGED <<tools, registered, system, user, req, context, mode, requests, invoked>>

\* handle_toolcalls, lines 146-159: one pass of the for loop, taking the call
\* at index i
DispatchAt(a, i) ==
    /\ pc[a] = "dispatch"
    /\ pos[a] < Len(calls[a])
    /\ LET call == calls[a][i]
       IN  \E fails \in BOOLEAN :
             LET r == ToolBoxInvoke(tools[a], call.name, call.arguments, fails)
             IN  /\ pos' = Set(pos, a, pos[a] + 1)
                 /\ invoked' = Set(invoked, a,
                        IF IsSome(r) /\ r[1].ran
                        THEN Append(invoked[a],
                                    [name |-> tools[a][call.name].name,
                                     cwd |-> tools[a][call.name].cwd,
                                     args |-> r[1].args])
                        ELSE invoked[a])
                 /\ IF r = None
                    THEN /\ helper' = Set(helper, a, HelperErr(NoSuchTool(call.name)))
                         /\ pc' = Set(pc, a, "helper_done")
                         /\ UNCHANGED resps
                    ELSE IF r[1].result.tag = "Ok"
                    THEN /\ resps' = Set(resps, a, Append(resps[a], r[1].result.text))
                         /\ UNCHANGED <<helper, pc>>
                    ELSE /\ helper' = Set(helper, a, HelperErr(r[1].result.err))
                         /\ pc' = Set(pc, a, "helper_done")
                         /\ UNCHANGED resps
    /\ UNCHANGED <<tools, registered, system, user, req, choice, context, mode, resp,
                   calls, text, action, result, requests>>

\* faulty variant of Dispatch: the calls are taken from the back of the vector
DispatchReversed(a) == DispatchAt(a, Len(calls[a]) - pos[a])

\* the for loop takes the calls in the order of the vector
Dispatch(a) == DispatchAt(a, pos[a] + 1)

\* handle_toolcalls, line 160: the for loop is exhausted
HelperReturn(a) ==
    /\ pc[a] = "dispatch"
    /\ pos[a] = Len(calls[a])
    /\ helper' = Set(helper, a, HelperOk(resps[a]))
    /\ pc' = Set(pc, a, "helper_done")
    /\ UNCHANGED <<tools, registered, system, user, req, choice, context, mode, resp,
                   calls, text, pos, resps, action, result, requests, invoked>>

\* faulty variant of AfterHelper: when the helper fails, the texts collected
\* before the failure are recorded in a User message
AfterHelperPartial(a) ==
    /\ pc[a] = "helper_done"
    /\ IF helper[a].tag = "Ok"
       THEN /\ context' = Set(context, a,
                              Append(context[a], UserMessage(Join(helper[a].resps))))
            /\ action' = Set(action, a, Continue)
            /\ pc' = Set(pc, a, "loopctl")
            /\ UNCHANGED <<result, calls, text, pos, resps, helper>>
       ELSE IF Recoverable(helper[a].err)
       THEN /\ context' = Set(context, a,
                              Append(context[a], UserMessage(Join(resps[a]))))
            /\ action' = Set(action, a, Continue)
            /\ pc' = Set(pc, a, "loopctl")
            /\ UNCHANGED <<result, calls, text, pos, resps, helper>>
       ELSE /\ result' = Set(result, a, Failed(helper[a].err))
            /\ pc' = Set(pc, a, "idle")
            /\ DropIteration(a)
            /\ UNCHANGED context
    /\ UNCHANGED <<tools, registered, system, user, req, choice, mode, resp, requests,
                   invoked>>

\* the on_toolcalls closures after handle_toolcalls: run_until_tool lines
\* 196-208, run_until_text lines 237-249
AfterHelper(a) ==
    /\ pc[a] = "helper_done"
    /\ IF helper[a].tag = "Ok"
       THEN /\ context' = Set(context, a,
                              Append(context[a], UserMessage(Join(helper[a].resps))))
            /\ action' = Set(action, a, Continue)
            /\ pc' = Set(pc, a, "loopctl")
            /\ UNCHANGED <<result, calls, text, pos, resps, helper>>
       ELSE IF Recoverable(helper[a].err)
       THEN /\ action' = Set(action, a, Continue)
            /\ pc' = Set(pc, a, "loopctl")
            /\ UNCHANGED <<context, result, calls, text, pos, resps, helper>>
       ELSE /\ result' = Set(result, a, Failed(helper[a].err))
            /\ pc' = Set(pc, a, "idle")
            /\ DropIteration(a)
            /\ UNCHANGED context
    /\ UNCHANGED <<tools, registered, system, user, req, choice, mode, resp, requests,
                   invoked>>

\* faulty variant of OnMessage: run_until_tool ignores free text and asks again
OnMessageRetry(a) ==
    /\ pc[a] = "on_message"
    /\ action' = Set(action, a,
                     IF mode[a].kind = "tool" THEN Continue ELSE OutText(text[a]))
    /\ pc' = Set(pc, a, "loopctl")
    /\ choice' = Set(choice, a, None)
    /\ resp' = Set(resp, a, <<>>)
    /\ UNCHANGED <<tools, registered, system, user, req, context, mode, calls, text, pos,
                   resps, helper, result, requests, invoked>>

\* the on_message closures: run_until_tool line 211, run_until_text line 251
OnMessage(a) ==
    /\ pc[a] = "on_message"
    /\ action' = Set(action, a,
                     IF mode[a].kind = "tool" THEN UnexpectedAction(text[a])
                     ELSE OutText(text[a]))
    /\ pc' = Set(pc, a, "loopctl")
    /\ choice' = Set(choice, a, None)
    /\ resp' = Set(resp, a, <<>>)
    /\ UNCHANGED <<tools, registered, system, user, req, context, mode, calls, text, pos,
                   resps, helper, result, requests, invoked>>

\* faulty variant of OnRefusal: after the refusal continuation the message
\* continuation is entered as well
OnRefusalThenMessage(a) ==
    /\ pc[a] = "on_refusal"
    /\ pc' = Set(pc, a, "on_message")
    /\ UNCHANGED <<tools, registered, system, user, req, context, mode, resp, choice,
                   calls, text, pos, resps, helper, action, result, requests, invoked>>

\* the on_refusal closures: run_until_tool line 212, run_until_text line 252
OnRefusal(a) ==
    /\ pc[a] = "on_refusal"
    /\ action' = Set(action, a, UnexpectedAction(text[a]))
    /\ pc' = Set(pc, a, "loopctl")
    /\ choice' = Set(choice, a, None)
    /\ resp' = Set(resp, a, <<>>)
    /\ UNCHANGED <<tools, registered, system, user, req, context, mode, calls, text, pos,
                   resps, helper, result, requests, invoked>>

\* faulty variant of LoopResult: Unexpected is an error in both drivers
LoopResultUnexpectedIsError(m, act) ==
    IF act.tag = "Unexpected" THEN Failed(Unexpected(act.text))
    ELSE IF m.kind = "tool" THEN OkArgs(act.args)
    ELSE OkText(act.text)

\* what the loop's match returns for a terminal action: run_until_tool lines
\* 218-219, run_until_text lines 258-259
LoopResult(m, act) ==
    IF m.kind = "tool"
    THEN IF act.tag = "Unexpected" THEN Failed(Unexpected(act.text)) ELSE OkArgs(act.args)
    ELSE OkText(act.text)

\* faulty variant of LoopControl: Unexpected makes the loop iterate again
LoopControlRetryUnexpected(a) ==
    /\ pc[a] = "loopctl"
    /\ IF action[a].tag \in {"Continue", "Unexpected"}
       THEN /\ pc' = Set(pc, a, "loop")
            /\ UNCHANGED result
       ELSE /\ result' = Set(result, a, LoopResult(mode[a], action[a]))
            /\ pc' = Set(pc, a, "idle")
    /\ DropIteration(a)
    /\ UNCHANGED <<tools, registered, system, user, req, choice, context, mode, resp,
                   requests, invoked>>

\* the match on the action: run_until_tool lines 216-220, run_until_text lines
\* 256-260
LoopControl(a) ==
    /\ pc[a] = "loopctl"
    /\ IF action[a].tag = "Continue"
       THEN /\ pc' = Set(pc, a, "loop")
            /\ UNCHANGED result
       ELSE /\ result' = Set(result, a, LoopResult(mode[a], action[a]))
            /\ pc' = Set(pc, a, "idle")
    /\ DropIteration(a)
    /\ UNCHANGED <<tools, registered, system, user, req, choice, context, mode, resp,
                   requests, invoked>>

\* the steps of a driver call other than a successful round trip
Drive(a) ==
    \/ RunUntilTool(a)
    \/ RunUntilText(a)
    \/ CompleteErr(a)
    \/ Classify(a)
    \/ OnToolCalls(a)
    \/ Dispatch(a)
    \/ HelperReturn(a)
    \/ AfterHelper(a)
    \/ OnMessage(a)
    \/ OnRefusal(a)
    \/ LoopControl(a)

Step(a) == CompleteOk(a) \/ Drive(a)

\* one agent is driven
Next == Step("A")

Spec == Init /\ [][Next]_vars

(***************************************************************************)
(* The caller's operations on the context between driver calls.  They take *)
(* &mut self, so none of them runs while a driver call is in progress.     *)
(***************************************************************************)
\* the texts and messages a caller appends
CallerTexts == {"more"}

CallerMessages == {AssistantContent("note")}

\* faulty variant of Pop: the oldest element is removed
PopFirst(v) == IF Len(v) = 0 THEN v ELSE Tail(v)

\* Vec::pop, the removed element dropped: nothing happens on an empty vector
Pop(v) == IF Len(v) = 0 THEN v ELSE SubSeq(v, 1, Len(v) - 1)

\* faulty variant of Push: the element is inserted at the front
PushFront(v, m) == <<m>> \o v

\* Vec::push
Push(v, m) == Append(v, m)

\* Agent::append_context
AppendContext(a) ==
    /\ pc[a] = "idle"
    /\ Len(context[a]) < MaxContext
    /\ \E m \in CallerMessages : context' = Set(context, a, Push(context[a], m))
    /\ UNCHANGED <<tools, registered, system, user, req, pc, mode, resp, choice, calls,
                   text, pos, resps, helper, action, result, requests, invoked>>

\* Agent::append_user: the User message is built and handed to append_context
AppendUser(a) ==
    /\ pc[a] = "idle"
    /\ Len(context[a]) < MaxContext
    /\ \E t \in CallerTexts : context' = Set(context, a, Push(context[a], UserMessage(t)))
    /\ UNCHANGED <<tools, registered, system, user, req, pc, mode, resp, choice, calls,
                   text, pos, resps, helper, action, result, requests, invoked>>

\* Agent::revert_context
RevertContext(a) ==
    /\ pc[a] = "idle"
    /\ context' = Set(context, a, Pop(context[a]))
    /\ UNCHANGED <<tools, registered, system, user, req, pc, mode, resp, choice, calls,
                   text, pos, resps, helper, action, result, requests, invoked>>

\* the responses of the endpoint in the runs with a caller: one choice each
CallerResponses == {<<c>> : c \in NarrowChoices}

CallerNext ==
    \/ Drive("A")
    \/ CompleteWith("A", CallerResponses)
    \/ AppendUser("A")
    \/ AppendContext("A")
    \/ RevertContext("A")

\* a caller alternates driver calls and operations on the context
CallerSpec == Init /\ [][CallerNext]_vars

(***************************************************************************)
(* Registration between driver calls: Agent.tools is a public field, and   *)
(* add_tool takes &mut self of the ToolBox.                                *)
(***************************************************************************)
\* the tools a caller registers: two tools of each type, told apart by the
\* directory they close over
ToolObjects == {ToolObject(n, cwd) : n \in ToolTypes, cwd \in {"/w", "/x"}}

\* ToolBox::add_tool on the agent's registry
AddTool(a) ==
    /\ pc[a] = "idle"
    /\ Len(registered[a]) < MaxRegistrations
    /\ \E tool \in ToolObjects :
          /\ tools' = Set(tools, a, AddDynTool(tools[a], tool))
          /\ registered' = Set(registered, a, Append(registered[a], tool))
    /\ UNCHANGED <<system, user, context, req, pc, mode, resp, choice, calls, text, pos,
                   resps, helper, action, result, requests, invoked>>

\* the responses of the endpoint in the runs with registrations: a message, a
\* refusal, and a well-formed call of each tool type
RegistryResponses ==
    {<<Choice(Some("Stop"), Some("42"), None, None)>>,
     <<Choice(Some("ContentFilter"), None, Some("policy violation"), None)>>}
        \cup {<<Choice(Some("ToolCalls"), None, None,
                       Some(<<[name |-> n, arguments |-> Serialize(ArgShape(n), v)]>>))>> :
                <<n, v>> \in {<<ReadFileName, <<"a">> >>, <<GrepName, <<"d", "p">> >>}}

RegistryNext ==
    \/ Drive("A")
    \/ CompleteWith("A", RegistryResponses)
    \/ AddTool("A")

\* a caller alternates driver calls and registrations
RegistrySpec == Init /\ [][RegistryNext]_vars

(***************************************************************************)
(* The driver's future is polled until it completes: a step of the running *)
(* driver call that can be taken is eventually taken, and the endpoint      *)
(* eventually answers or fails.                                            *)
(***************************************************************************)
LoopNext == Drive("A") \/ CompleteWith("A", CallerResponses)

LoopSpec == Init /\ [][LoopNext]_vars /\ WF_vars(LoopNext)

(***************************************************************************)
(* Two agents, each owning a clone of the same registry and its own        *)
(* context, driven by two tasks whose steps interleave at the await points.*)
(***************************************************************************)
\* the responses of the endpoint in the runs of two agents
PairResponses ==
    {<<Choice(Some("Stop"), Some("42"), None, None)>>,
     <<Choice(Some("ContentFilter"), None, Some("policy violation"), None)>>}
        \cup {<<Choice(Some("ToolCalls"), None, None, Some(<<c>>))>> :
                c \in {k \in Calls : k.name # GrepName}}

\* both agents are given the registry of the two tools and the default system text
PairInit ==
    /\ Init
    /\ \A a \in Agents : DOMAIN tools[a] = ToolTypes /\ system[a] = DefaultSystem

PairNext == \E a \in Agents : Drive(a) \/ CompleteWith(a, PairResponses)

PairSpec == PairInit /\ [][PairNext]_vars

(***************************************************************************)
(* Properties.  Agent "A" is the driven agent.                             *)
(***************************************************************************)
Continuations == {"on_toolcalls", "on_refusal", "on_message"}

\* the signals of a choice, read off the response as the specification words them
NonEmptyToolCalls(c) == c.tool_calls # None /\ c.tool_calls[1] # <<>>

SignalsToolCalls(c) == c.finish_reason = Some("ToolCalls") \/ NonEmptyToolCalls(c)

SignalsRefusal(c) == c.finish_reason = Some("ContentFilter") \/ c.refusal # None

SignalsMessage(c) == c.finish_reason \in {Some("Stop"), Some("Length")} \/ c.content # None

\* where run_once stands right after classifying c, by the ordered precedence
PrecedencePc(c) ==
    IF SignalsToolCalls(c) THEN "on_toolcalls"
    ELSE IF SignalsRefusal(c) THEN "on_refusal"
    ELSE IF SignalsMessage(c) THEN "on_message"
    ELSE "idle"

\* C1: right after run_once has classified a choice, the continuation about to
\* start is the one the ordered precedence gives: on_toolcalls iff the
\* finish-reason is ToolCalls or the tool-calls list is non-empty; else
\* on_refusal iff the finish-reason is ContentFilter or a refusal is present;
\* else on_message iff the finish-reason is Stop or Length or content is
\* present; else no continuation starts and the call has returned a fatal error.
C1_Precedence ==
    \A a \in Agents :
        choice[a] # None =>
            /\ pc[a] = PrecedencePc(choice[a][1])
            /\ pc[a] = "idle" => result[a] = Failed(NotSupportedChoice)

\* a choice with a non-empty tool-calls list, content and a refusal, and a
\* finish-reason of Stop, has been classified into the ToolCalls branch
C1_Witness ==
    /\ choice["A"] # None
    /\ NonEmptyToolCalls(choice["A"][1])
    /\ choice["A"][1].content = Some("42")
    /\ choice["A"][1].refusal # None
    /\ choice["A"][1].finish_reason = Some("Stop")
    /\ pc["A"] = "on_toolcalls"

\* a choice that carries none of the recognised signals
NoSignal(c) == ~SignalsToolCalls(c) /\ ~SignalsRefusal(c) /\ ~SignalsMessage(c)

\* C6: a choice whose finish-reason is none of Stop/Length/ToolCalls/
\* ContentFilter and that carries no content, no refusal and no non-empty
\* tool-calls makes the step return a fatal error: the classifying step starts
\* no continuation, yields no Action (so never Continue), appends nothing to the
\* context, and leaves the driver returned with that error, with no further
\* completion request.
C6_Fatal ==
    [][\A a \in Agents :
        (pc[a] = "classify" /\ NoSignal(resp[a][1])) =>
            /\ pc'[a] = "idle"
            /\ result'[a] = Failed(NotSupportedChoice)
            /\ action'[a] = NoAction
            /\ context'[a] = context[a]
            /\ requests'[a] = requests[a]
            /\ invoked'[a] = invoked[a]]_vars

\* the driver has returned the fatal error for a choice with an unrecognised
\* finish-reason and an empty tool-calls list, the context still empty
C6_Witness ==
    /\ choice["A"] # None
    /\ NoSignal(choice["A"][1])
    /\ choice["A"][1].finish_reason = Some("FunctionCall")
    /\ choice["A"][1].tool_calls = Some(<<>>)
    /\ pc["A"] = "idle"
    /\ result["A"] = Failed(NotSupportedChoice)
    /\ context["A"] = <<>>

\* the Assistant message carrying the payload of the branch whose continuation
\* is about to start, an absent field read as empty
MatchedPayload(a) ==
    LET c == choice[a][1]
    IN  CASE pc[a] = "on_toolcalls" ->
                AssistantToolCalls(IF c.tool_calls = None THEN <<>> ELSE c.tool_calls[1])
          [] pc[a] = "on_refusal" ->
                AssistantRefusal(IF c.refusal = None THEN "" ELSE c.refusal[1])
          [] OTHER ->
                AssistantContent(IF c.content = None THEN "" ELSE c.content[1])

\* C9: whenever a continuation is about to start, the last message of the
\* context is the Assistant message carrying the matched payload (empty when
\* the field is absent), and the classifying step appended exactly that one
\* message to the context it found.
C9_RecordedFirst ==
    /\ [](\A a \in Agents :
            pc[a] \in Continuations =>
                /\ Len(context[a]) >= 1
                /\ Last(context[a]) = MatchedPayload(a))
    /\ [][\A a \in Agents :
            (pc[a] = "classify" /\ pc'[a] \in Continuations) =>
                /\ Len(context'[a]) = Len(context[a]) + 1
                /\ SubSeq(context'[a], 1, Len(context[a])) = context[a]]_vars

\* the ToolCalls branch matched through the finish-reason alone, the list
\* absent and content present: on_toolcalls is about to start and the one
\* message of the context is the Assistant message with the empty list
C9_Witness ==
    /\ pc["A"] = "on_toolcalls"
    /\ choice["A"][1].tool_calls = None
    /\ choice["A"][1].content = Some("42")
    /\ context["A"] = <<AssistantToolCalls(<<>>)>>

\* agent a takes a step
Stepped(a) ==
    <<context[a], pc[a], mode[a], req[a], resp[a], choice[a], calls[a], text[a], pos[a],
      resps[a], helper[a], action[a], result[a], requests[a], invoked[a]>>'
        # <<context[a], pc[a], mode[a], req[a], resp[a], choice[a], calls[a], text[a],
            pos[a], resps[a], helper[a], action[a], result[a], requests[a], invoked[a]>>

\* C2: (as claimed) when the helper has failed with NoSuchTool or
\* IncorrectToolCall and the closure has returned Continue, the context ends
\* with a new User message that follows the Assistant tool-calls message of the
\* turn.
C2_UserMessageAfterRecoverable ==
    \A a \in Agents :
        (pc[a] = "loopctl" /\ helper[a].tag = "Err"
            /\ helper[a].err.kind \in {"NoSuchTool", "IncorrectToolCall"}) =>
            /\ action[a] = Continue
            /\ Len(context[a]) >= 2
            /\ Last(context[a]).role = "user"
            /\ context[a][Len(context[a]) - 1] = AssistantToolCalls(calls[a])

\* the batch handed to on_toolcalls holds a call of the target of run_until_tool
HasTarget(a) ==
    /\ mode[a].kind = "tool"
    /\ \E i \in 1..Len(calls[a]) : calls[a][i].name = mode[a].target

\* the first such call
FirstTarget(a) ==
    CHOOSE i \in 1..Len(calls[a]) :
        /\ calls[a][i].name = mode[a].target
        /\ \A j \in 1..(i - 1) : calls[a][j].name # mode[a].target

\* C3 as claimed: whenever the batch holds a call of the target, on_toolcalls
\* yields Out, the loop returns success, and no invocation logic runs.
C3_AlwaysOut ==
    [][\A a \in Agents :
        (pc[a] = "on_toolcalls" /\ HasTarget(a) /\ Stepped(a)) =>
            /\ pc'[a] = "loopctl"
            /\ action'[a].tag = "Out"
            /\ invoked'[a] = invoked[a]]_vars

\* C3 (amended): whenever the batch holds a call of the target, at any
\* position, no invocation logic runs in that turn and the helper is not
\* entered; if the raw arguments of the first such call are the serialization
\* of a value v of the target's argument type, on_toolcalls yields Out(v) and
\* the loop returns v as success.
C3_TargetShortcut ==
    [][\A a \in Agents :
        /\ (pc[a] = "on_toolcalls" /\ HasTarget(a) /\ Stepped(a)) =>
              /\ invoked'[a] = invoked[a]
              /\ pc'[a] # "dispatch"
              /\ \A v \in ArgValues(mode[a].target) :
                    calls[a][FirstTarget(a)].arguments
                        = Serialize(ArgShape(mode[a].target), v)
                    => (pc'[a] = "loopctl" /\ action'[a] = OutArgs(v))
        /\ (pc[a] = "loopctl" /\ mode[a].kind = "tool" /\ action[a].tag = "Out"
                /\ Stepped(a)) =>
              /\ pc'[a] = "idle"
              /\ result'[a] = OkArgs(action[a].args)
              /\ invoked'[a] = invoked[a]
              /\ requests'[a] = requests[a]]_vars

\* run_until_tool::<GrepTool> has returned the parsed arguments of a grep_files
\* call listed after a well-formed call of the registered read_file, and no
\* invocation logic has run in the turn
C3_Witness ==
    /\ pc["A"] = "idle"
    /\ mode["A"] = ToolMode(GrepName)
    /\ result["A"] = OkArgs(<<"d", "p">>)
    /\ ReadFileName \in DOMAIN tools["A"]
    /\ context["A"] =
          <<AssistantToolCalls(
              <<[name |-> ReadFileName,
                 arguments |-> Serialize(ArgShape(ReadFileName), <<"a">>)],
                [name |-> GrepName,
                 arguments |-> Serialize(ArgShape(GrepName), <<"d", "p">>)]>>)>>
    /\ invoked["A"] = <<>>

\* the turn's Assistant message records a refusal
RefusalTurn(a) ==
    /\ Len(context[a]) >= 1
    /\ Last(context[a]).role = "assistant"
    /\ Last(context[a]).refusal # None

\* C4: on_refusal leaves the context alone and never yields Continue; the loop
\* then returns at once, without another completion request: run_until_text
\* returns the refusal text r as success, run_until_tool returns the error
\* Unexpected(r).
C4_Refusal ==
    [][\A a \in Agents :
        /\ (pc[a] = "on_refusal" /\ Stepped(a)) =>
              /\ pc'[a] = "loopctl"
              /\ action'[a].tag # "Continue"
              /\ Last(context[a]).refusal = Some(text[a])
              /\ context'[a] = context[a]
        /\ (pc[a] = "loopctl" /\ RefusalTurn(a) /\ Stepped(a)) =>
              /\ pc'[a] = "idle"
              /\ requests'[a] = requests[a]
              /\ result'[a] =
                    IF mode[a].kind = "text"
                    THEN OkText(Last(context[a]).refusal[1])
                    ELSE Failed(Unexpected(Last(context[a]).refusal[1]))]_vars

\* two driver calls have each ended on a refusal "policy violation", the last
\* of them run_until_text, which returned the text as success
C4_Witness ==
    /\ pc["A"] = "idle"
    /\ mode["A"] = TextMode
    /\ result["A"] = OkText("policy violation")
    /\ context["A"] =
          <<AssistantRefusal("policy violation"), AssistantRefusal("policy violation")>>

\* call j of the batch names a registered capability / carries the
\* serialization of a value of that capability's argument type
RegisteredAt(a, j) == calls[a][j].name \in DOMAIN tools[a]

WellFormedAt(a, j) ==
    \E v \in ArgValues(calls[a][j].name) :
        calls[a][j].arguments = Serialize(ArgShape(calls[a][j].name), v)

\* the logic runs of the turn are those of calls 1..n of the batch, in order
InvokedAreCalls(a, n) ==
    /\ Len(invoked[a]) = n
    /\ \A j \in 1..n :
          /\ invoked[a][j].name = calls[a][j].name
          /\ calls[a][j].arguments
                = Serialize(ArgShape(calls[a][j].name), invoked[a][j].args)

\* C5: while the helper runs, the logic runs so far are those of the calls
\* taken so far, in the order of the batch; when the helper has failed at call
\* k, calls 1..k-1 succeeded, the logic of calls k+1..n has not run, and the
\* error is that of call k: NoSuchTool(its name) when the name is unknown,
\* IncorrectToolCall when its arguments do not parse, else the logic's error;
\* after the helper has returned no further logic runs in that turn.
C5_FirstFailureStops ==
    /\ [](\A a \in Agents :
            /\ pc[a] = "dispatch" =>
                  /\ InvokedAreCalls(a, pos[a])
                  /\ Len(resps[a]) = pos[a]
            /\ (pc[a] = "helper_done" /\ helper[a].tag = "Err") =>
                  LET k == pos[a]
                      ran == RegisteredAt(a, k) /\ WellFormedAt(a, k)
                  IN  /\ k \in 1..Len(calls[a])
                      /\ \A j \in 1..(k - 1) : RegisteredAt(a, j) /\ WellFormedAt(a, j)
                      /\ Len(resps[a]) = k - 1
                      /\ InvokedAreCalls(a, IF ran THEN k ELSE k - 1)
                      /\ helper[a].err =
                            IF ~RegisteredAt(a, k) THEN NoSuchTool(calls[a][k].name)
                            ELSE IF ~WellFormedAt(a, k)
                            THEN IncorrectToolCall(ArgShape(calls[a][k].name),
                                                   calls[a][k].arguments)
                            ELSE IOError)
    /\ [][\A a \in Agents :
            (pc[a] \in {"helper_done", "loopctl"}) => invoked'[a] = invoked[a]]_vars

\* the helper has failed at the first of two calls, whose arguments do not
\* parse; the second call, registered and well-formed, has not run
C5_Witness ==
    /\ pc["A"] = "helper_done"
    /\ helper["A"].err.kind = "IncorrectToolCall"
    /\ pos["A"] = 1
    /\ Len(calls["A"]) = 2
    /\ RegisteredAt("A", 2) /\ WellFormedAt("A", 2)
    /\ calls["A"][2].name # calls["A"][1].name
    /\ invoked["A"] = <<>>

\* C7: an error of the helper other than NoSuchTool and IncorrectToolCall, and
\* a failed completion request, end the driver call at that step with that same
\* error; whenever a driver call turns to an error it has returned, and a
\* returned driver issues no completion request.
C7_FatalErrors ==
    [][\A a \in Agents :
        /\ (pc[a] = "helper_done" /\ helper[a].tag = "Err" /\ Stepped(a)
                /\ helper[a].err.kind \notin {"NoSuchTool", "IncorrectToolCall"}) =>
              /\ pc'[a] = "idle"
              /\ result'[a] = Failed(helper[a].err)
              /\ action'[a].tag # "Continue"
              /\ requests'[a] = requests[a]
              /\ context'[a] = context[a]
        /\ (pc[a] = "loop" /\ pc'[a] \notin {"loop", "classify"}) =>
              /\ pc'[a] = "idle"
              /\ result'[a] = Failed(PromptError)
              /\ context'[a] = context[a]
        /\ (result[a].tag # "Err" /\ result'[a].tag = "Err") => pc'[a] = "idle"
        /\ pc[a] = "idle" => requests'[a] = requests[a]]_vars

\* a capability's logic failed in the first turn: the driver has returned the
\* domain error after one completion request, the results not recorded
C7_Witness ==
    /\ pc["A"] = "idle"
    /\ result["A"] = Failed(IOError)
    /\ requests["A"] = 1
    /\ Len(context["A"]) = 1
    /\ Len(context["A"][1].tool_calls[1]) = 2

\* the turn's Assistant message records content
MessageTurn(a) ==
    /\ Len(context[a]) >= 1
    /\ Last(context[a]).role = "assistant"
    /\ Last(context[a]).content # None

\* C8: on_message leaves the context alone; the loop then returns at once:
\* run_until_text returns the text t as success, run_until_tool returns the
\* error Unexpected(t).
C8_Message ==
    [][\A a \in Agents :
        /\ (pc[a] = "on_message" /\ Stepped(a)) =>
              /\ pc'[a] = "loopctl"
              /\ Last(context[a]).content = Some(text[a])
              /\ context'[a] = context[a]
        /\ (pc[a] = "loopctl" /\ MessageTurn(a) /\ Stepped(a)) =>
              /\ pc'[a] = "idle"
              /\ requests'[a] = requests[a]
              /\ result'[a] =
                    IF mode[a].kind = "text"
                    THEN OkText(Last(context[a]).content[1])
                    ELSE Failed(Unexpected(Last(context[a]).content[1]))]_vars

\* content "42" with finish-reason Stop: run_until_text has returned "42"
C8_Witness ==
    /\ pc["A"] = "idle"
    /\ mode["A"] = TextMode
    /\ result["A"] = OkText("42")
    /\ requests["A"] = 1
    /\ context["A"] = <<AssistantContent("42")>>

\* C10: a dispatch of call (name, raw) reports NoSuchTool(name) iff the name is
\* not registered; for a registered name, raw arguments that are not the
\* serialization of a value of the argument type yield IncorrectToolCall(schema,
\* raw) and no logic run; the serialization of a value v causes exactly one
\* logic run, of the registered tool of that name on v, and the dispatch yields
\* what the logic returned: its text is collected, or its error is the helper's.
C10_Dispatch ==
    [][\A a \in Agents :
        (pc[a] = "dispatch" /\ pos'[a] = pos[a] + 1) =>
            LET call == calls[a][pos[a] + 1]
                reg == call.name \in DOMAIN tools[a]
                shape == ArgShape(call.name)
            IN  /\ (helper'[a] = HelperErr(NoSuchTool(call.name))) <=> ~reg
                /\ ~reg => invoked'[a] = invoked[a]
                /\ (reg /\ ~WellFormedAt(a, pos[a] + 1)) =>
                      /\ helper'[a] = HelperErr(IncorrectToolCall(shape, call.arguments))
                      /\ invoked'[a] = invoked[a]
                /\ \A v \in ArgValues(call.name) :
                      (reg /\ call.arguments = Serialize(shape, v)) =>
                          /\ invoked'[a] =
                                Append(invoked[a],
                                       [name |-> call.name,
                                        cwd |-> tools[a][call.name].cwd,
                                        args |-> v])
                          /\ \/ /\ resps'[a] =
                                      Append(resps[a],
                                             ToolInvoke(tools[a][call.name], v, FALSE).text)
                                /\ helper'[a] = helper[a]
                             \/ /\ helper'[a] =
                                      HelperErr(ToolInvoke(tools[a][call.name], v, TRUE).err)
                                /\ resps'[a] = resps[a]]_vars

\* grep_files has been dispatched with the serialization of {directory: "d",
\* pattern: "p"}: its logic ran once, on that value, and its text is collected
C10_Witness ==
    /\ pc["A"] = "dispatch"
    /\ pos["A"] = 1
    /\ calls["A"][1] =
          [name |-> GrepName, arguments |-> Serialize(ArgShape(GrepName), <<"d", "p">>)]
    /\ invoked["A"] = <<[name |-> GrepName, cwd |-> "/w", args |-> <<"d", "p">>]>>
    /\ resps["A"] = <<"grep_files:d">>

\* the text the logic of call j of the batch returned on the value it was given
ResultText(a, j) ==
    ToolInvoke(tools[a][calls[a][j].name], invoked[a][j].args, FALSE).text

\* the first n texts, one per line
RECURSIVE JoinedByNewline(_, _)
JoinedByNewline(texts, n) ==
    IF n = 0 THEN ""
    ELSE IF n = 1 THEN texts[1]
    ELSE JoinedByNewline(texts, n - 1) \o "\n" \o texts[n]

\* C11: when the helper has succeeded on a batch of n calls, every one of the n
\* calls has run, and the closure's next step appends exactly one message, the
\* User message whose text is the n result texts in the order of the batch, one
\* per line, and yields Continue to the loop.
C11_ResultsMessage ==
    [][\A a \in Agents :
        (pc[a] = "helper_done" /\ helper[a].tag = "Ok" /\ Stepped(a)) =>
            LET n == Len(calls[a])
            IN  /\ Len(invoked[a]) = n
                /\ context'[a] =
                      Append(context[a],
                             UserMessage(JoinedByNewline([j \in 1..n |-> ResultText(a, j)], n)))
                /\ action'[a] = Continue
                /\ pc'[a] = "loopctl"
                /\ result'[a] = result[a]]_vars

\* read_file and grep_files were called in that order and both succeeded: the
\* closure has yielded Continue and the context ends with the two texts, one per
\* line, in a User message after the Assistant tool-calls message
C11_Witness ==
    /\ pc["A"] = "loopctl"
    /\ action["A"] = Continue
    /\ Len(context["A"]) = 2
    /\ context["A"][1].tool_calls # None
    /\ Len(context["A"][1].tool_calls[1]) = 2
    /\ context["A"][1].tool_calls[1][1].name = ReadFileName
    /\ context["A"][1].tool_calls[1][2].name = GrepName
    /\ context["A"][2] = UserMessage("read_file:a\ngrep_files:d")

\* sequence s is a prefix of sequence t
IsPrefix(s, t) == Len(s) <= Len(t) /\ \A i \in 1..Len(s) : t[i] = s[i]

\* the preamble of the conversation, as full_context() gives it
Preamble(a) == SubSeq(FullContext(a), 1, 2)

\* C12: revert_context on a non-empty context removes exactly its last message
\* and leaves every earlier message as it was; on an empty context it changes
\* nothing; in both cases the system and user texts and the two messages of
\* the preamble are unchanged.
C12_RevertLast ==
    [][\A a \in Agents :
        RevertContext(a) =>
            /\ context[a] # <<>> =>
                  /\ Len(context'[a]) = Len(context[a]) - 1
                  /\ \A i \in 1..Len(context'[a]) : context'[a][i] = context[a][i]
            /\ context[a] = <<>> => context'[a] = <<>>
            /\ system'[a] = system[a]
            /\ user'[a] = user[a]
            /\ Preamble(a)' = Preamble(a)
            /\ Preamble(a)' = <<SystemMessage(system[a]), UserMessage(user[a])>>]_vars

\* the caller appended "more", run_until_text answered "42" and the caller
\* reverted once: only the Assistant message of the answer is gone
C12_Witness ==
    /\ pc["A"] = "idle"
    /\ requests["A"] = 1
    /\ result["A"] = OkText("42")
    /\ context["A"] = <<UserMessage("more")>>

\* C13: in every state full_context() is the System message of the system text
\* and the User message of the initial user text followed by the context, these
\* two texts being the ones set by Agent::new (the given or the default system
\* text, the given user text), which no step changes; the step that computes
\* full_context() for a request leaves the context as it was and sends exactly
\* that sequence.
C13_FullContext ==
    /\ [](\A a \in Agents :
            /\ Len(FullContext(a)) = Len(context[a]) + 2
            /\ FullContext(a)[1] = SystemMessage(system[a])
            /\ FullContext(a)[2] = UserMessage(user[a])
            /\ \A i \in 1..Len(context[a]) : FullContext(a)[i + 2] = context[a][i]
            /\ system[a] \in {"sys", DefaultSystem}
            /\ user[a] = "task")
    /\ [][\A a \in Agents :
            /\ system'[a] = system[a]
            /\ user'[a] = user[a]
            /\ (pc[a] = "loop" /\ pc'[a] = "classify") =>
                  /\ context'[a] = context[a]
                  /\ req'[a] # None
                  /\ req'[a][1].messages =
                        <<SystemMessage(system[a]), UserMessage(user[a])>> \o context[a]]_vars

\* after a first driver call that ended on a refusal, a revert and an
\* append_user, the second request carries the default system text, the task
\* and the one message of the context
C13_Witness ==
    /\ pc["A"] = "classify"
    /\ requests["A"] = 2
    /\ context["A"] = <<UserMessage("more")>>
    /\ req["A"] = Some([tools |-> <<>>,
                         messages |-> <<SystemMessage(DefaultSystem), UserMessage("task"),
                                        UserMessage("more")>>])

\* C17: every append_user, append_context and driver step leaves the context it
\* found as a prefix of the context it leaves (no message is changed, moved or
\* removed); a step that shortens the context is a revert_context, which is no
\* step of a driver call.
C17_AppendOnly ==
    [][\A a \in Agents :
        /\ (AppendUser(a) \/ AppendContext(a) \/ Drive(a)
                \/ CompleteWith(a, CallerResponses)) =>
              IsPrefix(context[a], context'[a])
        /\ (~IsPrefix(context[a], context'[a])) =>
              /\ RevertContext(a)
              /\ pc[a] = "idle"
              /\ ~(Drive(a) \/ CompleteWith(a, CallerResponses))]_vars

\* the caller appended a message of its own and then "more", and a driver call
\* recorded the answer "42": the three are in the context in that order
C17_Witness ==
    /\ pc["A"] = "idle"
    /\ context["A"] =
          <<AssistantContent("note"), UserMessage("more"), AssistantContent("42")>>

\* where a continuation's code runs
InContinuation == Continuations \cup {"dispatch", "helper_done"}

\* C14: a run_once step whose response matches a branch starts the
\* continuation of that branch and no other; a continuation starts only from
\* such a classification, and a classification only from a completion request,
\* so one request starts one continuation once; when the continuation ends,
\* either it yielded an Action (Continue, Unexpected or Out), which is the value
\* the loop matches on, or it failed, and that error is the driver's result.
C14_OneContinuation ==
    [][\A a \in Agents :
        /\ (pc[a] = "classify" /\ Stepped(a) /\ ~NoSignal(resp[a][1])) =>
              /\ pc'[a] \in Continuations
              /\ pc'[a] = PrecedencePc(resp[a][1])
        /\ (pc'[a] \in Continuations /\ pc'[a] # pc[a]) => pc[a] = "classify"
        /\ (pc'[a] = "classify" /\ pc[a] # "classify") =>
              /\ pc[a] = "loop"
              /\ requests'[a] = requests[a] + 1
        /\ (pc[a] \in InContinuation /\ pc'[a] \notin InContinuation) =>
              \/ /\ pc'[a] = "loopctl"
                 /\ action'[a].tag \in {"Continue", "Unexpected", "Out"}
                 /\ result'[a] = result[a]
              \/ /\ pc'[a] = "idle"
                 /\ action'[a] = NoAction
                 /\ result'[a].tag = "Err"
        /\ (pc[a] \notin InContinuation /\ pc[a] # "loopctl") => action'[a] = NoAction]_vars

\* run_until_tool received a refusal: on_refusal has run and yielded
\* Unexpected with the refusal text, which the loop is about to match on
C14_Witness ==
    /\ pc["A"] = "loopctl"
    /\ mode["A"].kind = "tool"
    /\ action["A"] = UnexpectedAction("policy violation")
    /\ context["A"] = <<AssistantRefusal("policy violation")>>
    /\ requests["A"] = 1

\* the names registered so far, and the place of the last registration of n
RegisteredNames(a) == {registered[a][i].name : i \in 1..Len(registered[a])}

LastRegistration(a, n) ==
    CHOOSE i \in 1..Len(registered[a]) :
        /\ registered[a][i].name = n
        /\ \A j \in (i + 1)..Len(registered[a]) : registered[a][j].name # n

\* C15: after any sequence of registrations the registry holds exactly the
\* names registered, each with the tool registered last under it; and the
\* descriptors of a request are one per registered name, none left out, none
\* twice, each made of the name and schema of its type; every completion
\* request carries them.
C15_Registry ==
    /\ [](\A a \in Agents :
            /\ DOMAIN tools[a] = RegisteredNames(a)
            /\ \A n \in RegisteredNames(a) :
                  tools[a][n] = registered[a][LastRegistration(a, n)]
            /\ req[a] # None =>
                  LET d == req[a][1].tools
                  IN  /\ Len(d) = Cardinality(RegisteredNames(a))
                      /\ \A n \in RegisteredNames(a) :
                            Cardinality({i \in 1..Len(d) : d[i].name = n}) = 1
                      /\ \A i \in 1..Len(d) :
                            d[i] = [name |-> d[i].name,
                                    parameters |-> ArgShape(d[i].name),
                                    strict |-> FALSE])
    /\ [][\A a \in Agents :
            (requests'[a] # requests[a] /\ pc'[a] = "classify") => req'[a] # None]_vars

\* read_file was registered with directory /w, grep_files was added, read_file
\* was registered again with directory /x: the registry holds the second
\* read_file, and the request in flight describes the two names
C15_Witness ==
    /\ registered["A"] =
          <<ToolObject(ReadFileName, "/w"), ToolObject(GrepName, "/w"),
            ToolObject(ReadFileName, "/x")>>
    /\ tools["A"][ReadFileName].cwd = "/x"
    /\ pc["A"] = "classify"
    /\ Len(req["A"][1].tools) = 2

\* the text a registered capability returns for call c when it succeeds
AnswerText(c) == c.name \o ":" \o FromStr(ArgShape(c.name), c.arguments).val[1]

\* the results message that answers a recorded batch
AnswerOf(batch) ==
    UserMessage(JoinedByNewline([j \in 1..Len(batch) |-> AnswerText(batch[j])],
                                Len(batch)))

\* C16: in a context built by the loop drivers alone, every User message (a
\* results message) comes right after an Assistant message that records
\* tool-calls, and carries the results of exactly that batch; and whenever a
\* capability has been invoked in the current turn, the Assistant message
\* recording the batch is already the last message of the context.
C16_CallsBeforeResults ==
    \A a \in Agents :
        /\ \A i \in 1..Len(context[a]) :
              context[a][i].role = "user" =>
                  /\ i >= 2
                  /\ context[a][i - 1].role = "assistant"
                  /\ context[a][i - 1].tool_calls # None
                  /\ context[a][i] = AnswerOf(context[a][i - 1].tool_calls[1])
        /\ (pc[a] \in {"dispatch", "helper_done"}) =>
              /\ Len(context[a]) >= 1
              /\ Last(context[a]) = AssistantToolCalls(calls[a])
        /\ invoked[a] # <<>> =>
              /\ Len(context[a]) >= 1
              /\ \/ Last(context[a]).tool_calls # None
                 \/ /\ Len(context[a]) >= 2
                    /\ Last(context[a]).role = "user"
                    /\ context[a][Len(context[a]) - 1].tool_calls # None

\* two turns of tool calls, each answered: Assistant, User, Assistant, User
C16_Witness ==
    /\ Len(context["A"]) = 4
    /\ context["A"][2].role = "user"
    /\ context["A"][4].role = "user"
    /\ context["A"][4].content # context["A"][2].content
    /\ context["A"][3].tool_calls # None
    /\ Len(context["A"][1].tool_calls[1]) = 2

\* C18: in run_until_tool every iteration of the loop issues exactly one
\* completion request (a request is issued only at the head of the loop, and
\* every step from there issues one); at the match on the step's Action the
\* loop goes back to its head iff the Action is Continue, returns v as success
\* on Out(v) and returns the error Unexpected(text) on Unexpected(text); a
\* driver that has returned issues no request and invokes no capability.
C18_LoopControl ==
    [][\A a \in Agents :
        mode[a].kind = "tool" =>
            /\ (pc[a] = "loop" /\ Stepped(a)) => requests'[a] = requests[a] + 1
            /\ requests'[a] # requests[a] => pc[a] = "loop"
            /\ (pc'[a] = "loop" /\ pc[a] # "loop") => pc[a] \in {"idle", "loopctl"}
            /\ (pc[a] = "loopctl" /\ Stepped(a)) =>
                  /\ (action[a].tag = "Continue") <=> (pc'[a] = "loop")
                  /\ action[a].tag = "Continue" => result'[a] = result[a]
                  /\ action[a].tag = "Out" =>
                        (pc'[a] = "idle" /\ result'[a] = OkArgs(action[a].args))
                  /\ action[a].tag = "Unexpected" =>
                        (pc'[a] = "idle"
                            /\ result'[a] = Failed(Unexpected(action[a].text)))
            /\ pc[a] = "idle" =>
                  /\ requests'[a] = requests[a]
                  /\ invoked'[a] = invoked[a]
                  /\ pc'[a] \in {"idle", "loop"}]_vars

\* run_until_tool::<GrepTool> iterated once on Continue (read_file answered)
\* and returned the arguments of the grep_files call of the second response
C18_Witness ==
    /\ pc["A"] = "idle"
    /\ mode["A"] = ToolMode(GrepName)
    /\ requests["A"] = 2
    /\ result["A"] = OkArgs(<<"d", "p">>)
    /\ Len(context["A"]) = 3
    /\ context["A"][2] = UserMessage("read_file:a")

\* the Assistant message of the branch the ordered precedence gives choice c
PrecedenceMessage(c) ==
    IF SignalsToolCalls(c)
    THEN AssistantToolCalls(IF c.tool_calls = None THEN <<>> ELSE c.tool_calls[1])
    ELSE IF SignalsRefusal(c)
    THEN AssistantRefusal(IF c.refusal = None THEN "" ELSE c.refusal[1])
    ELSE AssistantContent(IF c.content = None THEN "" ELSE c.content[1])

\* C19: what a run_once step makes of a response is a function of the state it
\* starts from and of the first choice alone: the branch, the appended
\* Assistant message, the context and the error of an unsupported choice are
\* given by the first choice, whatever the other choices are; and the payload
\* handed to the continuation, hence the Action it yields, is that of the first
\* choice.
C19_FirstChoiceOnly ==
    [][\A a \in Agents :
        /\ (pc[a] = "classify" /\ Stepped(a)) =>
              LET c == resp[a][1]
              IN  /\ choice'[a] = Some(c)
                  /\ pc'[a] = PrecedencePc(c)
                  /\ context'[a] =
                        IF NoSignal(c) THEN context[a]
                        ELSE Append(context[a], PrecedenceMessage(c))
                  /\ result'[a] =
                        IF NoSignal(c) THEN Failed(NotSupportedChoice) ELSE result[a]
                  /\ action'[a] = action[a]
        /\ (pc[a] \in Continuations /\ Stepped(a)) =>
              LET c == choice[a][1]
              IN  /\ pc[a] = "on_toolcalls" =>
                        calls[a] = (IF c.tool_calls = None THEN <<>> ELSE c.tool_calls[1])
                  /\ pc[a] = "on_refusal" =>
                        /\ c.refusal \in {None, Some(text[a])}
                        /\ action'[a] = UnexpectedAction(text[a])
                  /\ pc[a] = "on_message" =>
                        /\ c.content \in {None, Some(text[a])}
                        /\ action'[a] \in {UnexpectedAction(text[a]), OutText(text[a])}
                  /\ context'[a] = context[a]]_vars

\* a response of two choices, the first a refusal and the second a message:
\* the refusal branch was taken and the second choice is what is left of the
\* response
C19_Witness ==
    /\ pc["A"] = "on_refusal"
    /\ resp["A"] = <<Choice(Some("Stop"), Some("second"), None, None)>>
    /\ choice["A"] = Some(Choice(Some("ContentFilter"), None, Some("policy violation"), None))
    /\ context["A"] = <<AssistantRefusal("policy violation")>>

\* everything agent a owns
Owned(a) ==
    <<tools[a], registered[a], system[a], user[a], context[a], pc[a], mode[a], req[a],
      resp[a], choice[a], calls[a], text[a], pos[a], resps[a], helper[a], action[a],
      result[a], requests[a], invoked[a]>>

\* C20: when the steps of two agents built on the same registry contents
\* interleave, no step (a dispatch included) changes either registry, and every
\* step is a step of one agent: it is one of that agent's own driver steps,
\* which reads and writes what that agent owns, and it leaves everything the
\* other agent owns (its context, its position, its result) as it was; so each
\* agent's context and result develop as in a run of that agent alone on the
\* responses it receives.
C20_Isolation ==
    /\ [](\A a, b \in Agents : tools[a] = tools[b])
    /\ [][/\ tools' = tools
           /\ registered' = registered
           /\ \A a \in Agents :
                Owned(a)' # Owned(a) =>
                    /\ Drive(a) \/ CompleteWith(a, PairResponses)
                    /\ \A b \in Agents \ {a} : Owned(b)' = Owned(b)]_vars

\* both driver calls are in progress at once: A's helper is dispatching a
\* read_file call after B has received a refusal that its loop has yet to match
\* on, and each context holds only its own agent's message
C20_Witness ==
    /\ pc["A"] = "dispatch"
    /\ pos["A"] = 1
    /\ invoked["A"] = <<[name |-> ReadFileName, cwd |-> "/w", args |-> <<"a">>]>>
    /\ pc["B"] = "loopctl"
    /\ context["B"] = <<AssistantRefusal("policy violation")>>
    /\ Len(context["A"]) = 1
    /\ context["A"][1].tool_calls # None

\* the raw arguments of call c are not the serialization of any value of the
\* argument type of capability n
Malformed(c, n) == \A v \in ArgValues(n) : c.arguments # Serialize(ArgShape(n), v)

C22_PartialResultsDropped ==
    /\ [](\A a \in Agents :
            (pc[a] = "helper_done" /\ helper[a].tag = "Err") =>
                /\ Len(resps[a]) = pos[a] - 1
                /\ Len(invoked[a]) >= pos[a] - 1
                /\ Len(context[a]) >= 1
                /\ Last(context[a]) = AssistantToolCalls(calls[a]))
    /\ [][\A a \in Agents :
            /\ (pc[a] = "helper_done" /\ helper[a].tag = "Err" /\ Stepped(a)) =>
                  /\ context'[a] = context[a]
                  /\ pc'[a] \in {"loopctl", "idle"}
            /\ (pc[a] = "loopctl" /\ helper[a].tag = "Err" /\ Stepped(a)) =>
                  /\ context'[a] = context[a]
                  /\ Last(context[a]) = AssistantToolCalls(calls[a])]_vars

\* read_file ran and returned its text, then the second call named an unknown
\* capability: the closure swallowed the error, and the one message of the
\* context is the Assistant message of the two calls
C22_Witness ==
    /\ pc["A"] = "loopctl"
    /\ helper["A"] = HelperErr(NoSuchTool(BogusName))
    /\ resps["A"] = <<"read_file:a">>
    /\ Len(invoked["A"]) = 1
    /\ Len(calls["A"]) = 2
    /\ context["A"] = <<AssistantToolCalls(calls["A"])>>

\* the ToolCalls branch was taken through the finish-reason alone: the list
\* handed to on_toolcalls is empty
EmptyBatchTurn(a) ==
    /\ pc[a] \in {"on_toolcalls", "dispatch", "helper_done"}
    /\ calls[a] = <<>>

\* C23: when the ToolCalls branch is selected by finish-reason = ToolCalls with
\* the tool-calls list absent or empty, the recorded Assistant message carries
\* an empty tool-calls list; in both drivers on_toolcalls enters the helper
\* (run_until_tool finds no target and yields no Out), the helper returns
\* success with no text without invoking anything, and the closure appends a
\* User message with empty text and yields Continue.
C23_EmptyBatch ==
    /\ [](\A a \in Agents :
            /\ (choice[a] # None /\ pc[a] = "on_toolcalls"
                    /\ ~NonEmptyToolCalls(choice[a][1])) =>
                  /\ choice[a][1].finish_reason = Some("ToolCalls")
                  /\ calls[a] = <<>>
            /\ EmptyBatchTurn(a) =>
                  /\ Len(context[a]) >= 1
                  /\ Last(context[a]) = AssistantToolCalls(<<>>)
                  /\ invoked[a] = <<>>)
    /\ [][\A a \in Agents :
            (EmptyBatchTurn(a) /\ Stepped(a)) =>
                /\ invoked'[a] = <<>>
                /\ result'[a] = result[a]
                /\ action'[a].tag # "Out"
                /\ pc[a] = "on_toolcalls" => pc'[a] = "dispatch"
                /\ pc[a] = "dispatch" =>
                      (pc'[a] = "helper_done" /\ helper'[a] = HelperOk(<<>>))
                /\ pc[a] = "helper_done" =>
                      /\ pc'[a] = "loopctl"
                      /\ action'[a] = Continue
                      /\ context'[a] = Append(context[a], UserMessage(""))]_vars

\* run_until_tool received finish-reason ToolCalls without a tool-calls list:
\* the context holds the Assistant message with the empty list and a User
\* message with empty text, and the closure has yielded Continue
C23_Witness ==
    /\ pc["A"] = "loopctl"
    /\ mode["A"].kind = "tool"
    /\ action["A"] = Continue
    /\ invoked["A"] = <<>>
    /\ context["A"] = <<AssistantToolCalls(<<>>), UserMessage("")>>

\* a turn of tool calls is being worked on
InToolTurn(a) == pc[a] \in {"on_toolcalls", "dispatch", "helper_done", "loopctl"}

\* call c names a capability the agent's registry does not hold / names a tool
\* type and carries arguments that do not parse into its argument type
Unregistered(a, c) == c.name \notin DOMAIN tools[a]

BadArguments(c) == c.name \in ToolTypes /\ Malformed(c, c.name)

\* the batch of the turn requests only unregistered capabilities, or only
\* malformed arguments
OnlyUnregistered(a) ==
    calls[a] # <<>> /\ \A j \in 1..Len(calls[a]) : Unregistered(a, calls[a][j])

OnlyMalformed(a) ==
    calls[a] # <<>> /\ \A j \in 1..Len(calls[a]) : BadArguments(calls[a][j])

RetryTurn(a) ==
    /\ InToolTurn(a)
    /\ calls[a] # <<>>
    /\ ~HasTarget(a)
    /\ \A j \in 1..Len(calls[a]) :
          Unregistered(a, calls[a][j]) \/ BadArguments(calls[a][j])

====
